---- MODULE Spec2Model ----
(***************************************************************************)
(* Container Keys middleware (containerkeys/middleware.py).                *)
(*                                                                         *)
(* Python byte strings are sequences of one-character strings, so that     *)
(* lower-casing, "%s-%s" formatting, UTF-8 normalisation and the constant  *)
(* time comparison are computed character by character.  Python dicts are  *)
(* functions; "k in d" is k \in DOMAIN d.                                  *)
(***************************************************************************)
EXTENDS Integers, Sequences, FiniteSets, TLC

VARIABLES
    max_keys_per_container, \* ContainerKeys.max_keys_per_container
    container,              \* metadata stored on the container (backend)
    backend_status,         \* status of the container HEAD made by get_container_info
    request,                \* the WSGI environ as the client's request arrived
    env,                    \* the WSGI environ held by __call__ (mutable dict)
    pc,                     \* position of __call__
    try_key_type,           \* local of __call__
    try_key_value,          \* local of __call__
    keys,                   \* local of __call__
    fetches,                \* get_container_info calls made for this request
    app_calls,              \* environs handed to self.app(env, start_response)
    response,               \* what __call__ itself answered (401) or raised
    prev,                   \* outcome the client got for the request it sent before
    call,                   \* module-level function called directly, with its arguments
    ret                     \* what that call returned

vars == <<max_keys_per_container, container, backend_status, request, env, pc,
          try_key_type, try_key_value, keys, fetches, app_calls, response,
          prev, call, ret>>

----------------------------------------------------------------------------
(* Bounds of the model *)

MaxKeysBound == 2   \* max_keys_per_container ranges over 1..MaxKeysBound
MaxMeta == 2        \* metadata entries on a container
MaxKeyList == 2     \* length of the list handed to key_matches directly

----------------------------------------------------------------------------
(* Python values *)

None == <<"None">>
Unset == <<"Unset">>      \* a local not assigned yet
EmptyDict == [k \in {} |-> k]
UnsetDict == [k \in {Unset} |-> Unset]   \* a dict local not assigned yet

\* truth value of None or of a str
Truthy(v) == v # None /\ v # <<>>

\* str.lower() on one ASCII character
LowerChar(c) ==
    CASE c = "A" -> "a" [] c = "B" -> "b" [] c = "C" -> "c" [] c = "D" -> "d" [] c = "E" -> "e"
      [] c = "F" -> "f" [] c = "G" -> "g" [] c = "H" -> "h" [] c = "I" -> "i" [] c = "J" -> "j"
      [] c = "K" -> "k" [] c = "L" -> "l" [] c = "M" -> "m" [] c = "N" -> "n" [] c = "O" -> "o"
      [] c = "P" -> "p" [] c = "Q" -> "q" [] c = "R" -> "r" [] c = "S" -> "s" [] c = "T" -> "t"
      [] c = "U" -> "u" [] c = "V" -> "v" [] c = "W" -> "w" [] c = "X" -> "x" [] c = "Y" -> "y"
      [] c = "Z" -> "z"
      [] OTHER -> c

Lower(s) == [i \in 1..Len(s) |-> LowerChar(s[i])]

DigitChar(d) ==
    CASE d = 0 -> "0" [] d = 1 -> "1" [] d = 2 -> "2" [] d = 3 -> "3"
      [] d = 4 -> "4" [] d = 5 -> "5" [] d = 6 -> "6" [] d = 7 -> "7"
      [] d = 8 -> "8" [] d = 9 -> "9"

\* "%s" % n for an int n >= 0
RECURSIVE IntToStr(_)
IntToStr(n) == IF n < 10 THEN <<DigitChar(n)>>
               ELSE IntToStr(n \div 10) \o <<DigitChar(n % 10)>>

\* ord() of the bytes that occur in header and metadata values
Ord(c) ==
    CASE c = "a" -> 97 [] c = "A" -> 65 [] c = "b" -> 98
      [] c = "xFF" -> 255 [] c = "xEF" -> 239 [] c = "xBF" -> 191
      [] c = "xBD" -> 189

RECURSIVE BitXor(_, _)
BitXor(a, b) == IF a = 0 /\ b = 0 THEN 0
                ELSE (((a % 2) + (b % 2)) % 2) + 2 * BitXor(a \div 2, b \div 2)

RECURSIVE BitOr(_, _)
BitOr(a, b) == IF a = 0 /\ b = 0 THEN 0
               ELSE (IF (a % 2) = 1 \/ (b % 2) = 1 THEN 1 ELSE 0)
                    + 2 * BitOr(a \div 2, b \div 2)

\* swift.common.utils.streq_const_time: length check, then OR of the XORs of
\* every byte pair, compared with 0 at the end
RECURSIVE XorAccumulate(_, _, _, _)
XorAccumulate(s1, s2, i, result) ==
    IF i > Len(s1) THEN result
    ELSE XorAccumulate(s1, s2, i + 1, BitOr(result, BitXor(Ord(s1[i]), Ord(s2[i]))))

streq_const_time(s1, s2) ==
    IF Len(s1) # Len(s2) THEN FALSE
    ELSE XorAccumulate(s1, s2, 1, 0) = 0

\* swift.common.utils.get_valid_utf8_str: decode with errors='replace' and
\* encode again, so an invalid byte becomes U+FFFD (EF BF BD)
RECURSIVE get_valid_utf8_str(_)
get_valid_utf8_str(value) ==
    IF value = <<>> THEN <<>>
    ELSE (IF Head(value) = "xFF" THEN <<"xEF", "xBF", "xBD">> ELSE <<Head(value)>>)
         \o get_valid_utf8_str(Tail(value))

----------------------------------------------------------------------------
(* Module constants *)

FULL_KEY == <<"F", "u", "l", "l", "-", "K", "e", "y">>
READ_KEY == <<"R", "e", "a", "d", "-", "K", "e", "y">>

FULL_KEY_HEADER == "HTTP_X_CONTAINER_META_FULL_KEY"
READ_KEY_HAEDER == "HTTP_X_CONTAINER_META_READ_KEY"
AUTH_TOKEN_HEADER == "HTTP_X_AUTH_TOKEN"
REQUEST_METHOD == "REQUEST_METHOD"
AUTHORIZE_OVERRIDE == "swift.authorize_override"

\* DELETE left out of the restricted methods
RestrictedWithoutDelete == {"PUT", "POST"}

READ_RESTRICTED_METHODS == {"PUT", "POST", "DELETE"}

DEFAULT_MAX_KEYS_PER_CONTAINER == 3

----------------------------------------------------------------------------
(* Module-level functions *)

\* ["%s-%s" % (cmp_key, i + 1) for i in xrange(0, max_keys)]
RECURSIVE SuffixedNames(_, _, _)
SuffixedNames(cmp_key, i, max_keys) ==
    IF i >= max_keys THEN <<>>
    ELSE <<cmp_key \o <<"-">> \o IntToStr(i + 1)>>
         \o SuffixedNames(cmp_key, i + 1, max_keys)

generate_valid_metadata_keynames(key_name, max_keys) ==
    LET cmp_key == Lower(key_name)
        valid_keynames == SuffixedNames(cmp_key, 0, max_keys)
    IN  <<cmp_key>> \o valid_keynames

Elems(seq) == {seq[i] : i \in 1..Len(seq)}

\* keys[k].append(v) on a defaultdict(list)
Append2(d, k, v) ==
    [x \in DOMAIN d \cup {k} |->
        IF x = k THEN (IF k \in DOMAIN d THEN Append(d[k], v) ELSE <<v>>)
        ELSE d[x]]

\* the loop over meta.iteritems(); items is the order the dict yields its keys in
RECURSIVE ScanMeta(_, _, _, _, _)
ScanMeta(meta, items, full_keys, read_keys, acc) ==
    IF items = <<>> THEN acc
    ELSE LET key == Head(items)
             v == get_valid_utf8_str(meta[key])
             cmp_key == Lower(key)
             acc2 == IF cmp_key \in Elems(full_keys) THEN Append2(acc, FULL_KEY, v)
                     ELSE IF cmp_key \in Elems(read_keys) THEN Append2(acc, READ_KEY, v)
                     ELSE acc
         IN  ScanMeta(meta, Tail(items), full_keys, read_keys, acc2)

get_container_keys_from_metadata(meta, max_keys, items) ==
    LET full_keys == generate_valid_metadata_keynames(FULL_KEY, max_keys)
        read_keys == generate_valid_metadata_keynames(READ_KEY, max_keys)
    IN  ScanMeta(meta, items, full_keys, read_keys, EmptyDict)

\* only the first key of the list is compared
key_matches_first(to_match, keylist) ==
    Len(keylist) >= 1 /\ streq_const_time(to_match, keylist[1])

\* any([streq_const_time(to_match, key) for key in keys])
key_matches(to_match, keylist) ==
    \E i \in 1..Len(keylist) : streq_const_time(to_match, keylist[i])

\* dict.get(k): the defaultdict's factory is not used by get
DictGet(d, k) == IF k \in DOMAIN d THEN d[k] ELSE None

\* the orders in which a dict may yield its keys
ItemOrders(meta) ==
    {s \in [1..Cardinality(DOMAIN meta) -> DOMAIN meta] :
        \A i, j \in DOMAIN s : i # j => s[i] # s[j]}

----------------------------------------------------------------------------
(* Requests and containers the model draws from *)

HeaderValues == {<<>>, <<"a">>, <<"A">>}
TokenValues == {<<>>, <<"t">>}
Methods == {"GET", "HEAD", "PUT", "POST", "DELETE", "OPTIONS"}

MetaNames == {FULL_KEY,
              <<"f", "u", "l", "l", "-", "k", "e", "y", "-", "1">>,
              <<"F", "U", "L", "L", "-", "K", "E", "Y", "-", "2">>,
              READ_KEY,
              <<"O", "t", "h", "e", "r">>}
\* the container server leaves metadata items with an empty value out of its
\* answer, so a stored value is never the empty string
MetaValues == {<<"a">>, <<"A">>}

Optional(k, values) == {EmptyDict} \cup {[x \in {k} |-> v] : v \in values}

Merge(f, g) == [k \in DOMAIN f \cup DOMAIN g |-> IF k \in DOMAIN g THEN g[k] ELSE f[k]]

Requests ==
    {Merge(Merge(Merge([x \in {REQUEST_METHOD} |-> m], t), f), r) :
        m \in Methods,
        t \in Optional(AUTH_TOKEN_HEADER, TokenValues),
        f \in Optional(FULL_KEY_HEADER, HeaderValues),
        r \in Optional(READ_KEY_HAEDER, HeaderValues)}

Containers ==
    UNION {[S -> MetaValues] : S \in {T \in SUBSET MetaNames : Cardinality(T) <= MaxMeta}}

NoResponse == [status |-> 0, body |-> ""]
NoCall == [fn |-> "none", key_name |-> <<>>, max_keys |-> 0, meta |-> EmptyDict,
           to_match |-> <<>>, keys |-> <<>>]
NoReturn == [names |-> <<>>, keys |-> EmptyDict, matches |-> FALSE]

----------------------------------------------------------------------------
(* ContainerKeys *)

\* swift.proxy.controllers.base.get_container_info: the info dict of the
\* container; when the HEAD did not succeed the dict carries no metadata
get_container_info ==
    [status |-> backend_status,
     meta |-> IF backend_status = 200 THEN container ELSE EmptyDict]

\* the Read-Key header looked at first
_get_request_key_headers_read_first(e) ==
    IF READ_KEY_HAEDER \in DOMAIN e THEN <<READ_KEY, e[READ_KEY_HAEDER]>>
    ELSE IF FULL_KEY_HEADER \in DOMAIN e THEN <<FULL_KEY, e[FULL_KEY_HEADER]>>
    ELSE <<None, None>>

_get_request_key_headers(e) ==
    IF FULL_KEY_HEADER \in DOMAIN e THEN <<FULL_KEY, e[FULL_KEY_HEADER]>>
    ELSE IF READ_KEY_HAEDER \in DOMAIN e THEN <<READ_KEY, e[READ_KEY_HAEDER]>>
    ELSE <<None, None>>

_get_container_keys(items) ==
    LET container_info == get_container_info
    IN  get_container_keys_from_metadata(container_info.meta,
                                         max_keys_per_container, items)

\* HTTPUnauthorized(body=body)
_invalid(e) ==
    [status |-> 401,
     body |-> IF e[REQUEST_METHOD] = "HEAD" THEN ""
              ELSE "401 Unauthorized: Auth Key invalid\n"]

\* `keys is None` in place of `not keys`: d is a defaultdict, None is not
KeysIsNone(d) == {k \in DOMAIN d : FALSE} # {}

\* `not keys`
NotKeys(d) == DOMAIN d = {}

\* return self.app(env, start_response)
ReturnApp ==
    /\ app_calls' = Append(app_calls, env)
    /\ pc' = "done"

\* return self._invalid(env, start_response)
ReturnInvalid ==
    /\ response' = _invalid(env)
    /\ pc' = "done"

\* key_matches(try_key_value, None): 'NoneType' object is not iterable
RaiseTypeError ==
    /\ response' = [status |-> 500, body |-> "TypeError"]
    /\ pc' = "done"

Init ==
    /\ max_keys_per_container \in 1..MaxKeysBound
    /\ backend_status \in {200, 404, 503}
    /\ container \in Containers
    /\ backend_status = 404 => container = EmptyDict
    /\ request \in Requests
    /\ env = request
    /\ pc = "token"
    /\ try_key_type = Unset
    /\ try_key_value = Unset
    /\ keys = UnsetDict
    /\ fetches = 0
    /\ app_calls = <<>>
    /\ response = NoResponse
    /\ prev = "none"
    /\ call = NoCall
    /\ ret = NoReturn

\* the token looked up under a name no request carries
CheckTokenWrongName ==
    /\ pc = "token"
    /\ pc' = "extract"
    /\ UNCHANGED <<max_keys_per_container, container, backend_status, request, env,
                   try_key_type, try_key_value, keys, fetches, app_calls, response,
                   prev, call, ret>>

\* if env.get('HTTP_X_AUTH_TOKEN', False): return self.app(...)
CheckToken ==
    /\ pc = "token"
    /\ IF AUTH_TOKEN_HEADER \in DOMAIN env /\ Truthy(env[AUTH_TOKEN_HEADER])
       THEN ReturnApp
       ELSE /\ pc' = "extract"
            /\ UNCHANGED app_calls
    /\ UNCHANGED <<max_keys_per_container, container, backend_status, request, env,
                   try_key_type, try_key_value, keys, fetches, response, prev,
                   call, ret>>

\* try_key_type, try_key_value = self._get_request_key_headers(env)
ExtractKey ==
    /\ pc = "extract"
    /\ try_key_type' = _get_request_key_headers(env)[1]
    /\ try_key_value' = _get_request_key_headers(env)[2]
    /\ pc' = "candidate"
    /\ UNCHANGED <<max_keys_per_container, container, backend_status, request, env,
                   keys, fetches, app_calls, response, prev, call, ret>>

\* if not try_key_value or not try_key_type: return self.app(...)
CheckCandidate ==
    /\ pc = "candidate"
    /\ IF ~Truthy(try_key_value) \/ ~Truthy(try_key_type)
       THEN ReturnApp
       ELSE /\ pc' = "fetch"
            /\ UNCHANGED app_calls
    /\ UNCHANGED <<max_keys_per_container, container, backend_status, request, env,
                   try_key_type, try_key_value, keys, fetches, response, prev,
                   call, ret>>

\* the fetch made a second time when the first found no container
FetchKeysRetried ==
    /\ pc = "fetch"
    /\ \E items \in ItemOrders(get_container_info.meta) :
          keys' = _get_container_keys(items)
    /\ fetches' = IF get_container_info.status = 200 THEN fetches + 1 ELSE fetches + 2
    /\ pc' = "keys"
    /\ UNCHANGED <<max_keys_per_container, container, backend_status, request, env,
                   try_key_type, try_key_value, app_calls, response, prev, call, ret>>

\* keys = self._get_container_keys(env, start_response)
FetchKeys ==
    /\ pc = "fetch"
    /\ \E items \in ItemOrders(get_container_info.meta) :
          keys' = _get_container_keys(items)
    /\ fetches' = fetches + 1
    /\ pc' = "keys"
    /\ UNCHANGED <<max_keys_per_container, container, backend_status, request, env,
                   try_key_type, try_key_value, app_calls, response, prev, call, ret>>

\* if not keys: return self.app(...)
CheckKeys ==
    /\ pc = "keys"
    /\ IF NotKeys(keys)
       THEN ReturnApp
       ELSE /\ pc' = "authorize"
            /\ UNCHANGED app_calls
    /\ UNCHANGED <<max_keys_per_container, container, backend_status, request, env,
                   try_key_type, try_key_value, keys, fetches, response, prev,
                   call, ret>>

\* env['swift.authorize_override'] = True; return self.app(env, start_response)
GrantOverride ==
    /\ env' = Merge(env, [x \in {AUTHORIZE_OVERRIDE} |-> TRUE])
    /\ app_calls' = Append(app_calls, env')
    /\ pc' = "done"
    /\ UNCHANGED response

\* the if / elif on try_key_type, up to the final return
Authorize ==
    /\ pc = "authorize"
    /\ IF try_key_type = READ_KEY
       THEN IF DictGet(keys, READ_KEY) = None
            THEN RaiseTypeError /\ UNCHANGED <<env, app_calls>>
            ELSE IF ~key_matches(try_key_value, DictGet(keys, READ_KEY))
            THEN ReturnInvalid /\ UNCHANGED <<env, app_calls>>
            ELSE IF env[REQUEST_METHOD] \in READ_RESTRICTED_METHODS
            THEN ReturnInvalid /\ UNCHANGED <<env, app_calls>>
            ELSE GrantOverride
       ELSE IF try_key_type = FULL_KEY /\ DictGet(keys, FULL_KEY) = None
            THEN RaiseTypeError /\ UNCHANGED <<env, app_calls>>
            ELSE IF try_key_type = FULL_KEY
                    /\ ~key_matches(try_key_value, DictGet(keys, FULL_KEY))
            THEN ReturnInvalid /\ UNCHANGED <<env, app_calls>>
            ELSE GrantOverride
    /\ UNCHANGED <<max_keys_per_container, container, backend_status, request,
                   try_key_type, try_key_value, keys, fetches, prev, call, ret>>

\* what the client saw of this component's decision
Outcome ==
    IF response.status = 401 THEN "Reject"
    ELSE IF response.status = 500 THEN "Fault"
    ELSE IF app_calls = <<>> THEN "Pending"
    ELSE IF AUTHORIZE_OVERRIDE \in DOMAIN app_calls[Len(app_calls)] THEN "GrantOverride"
    ELSE "NoOpinion"

EmptyKeyHeaders(e) ==
    {h \in {FULL_KEY_HEADER, READ_KEY_HAEDER} : h \in DOMAIN e /\ e[h] = <<>>}

\* the client sends the same request again without one of its empty key
\* headers; the middleware keeps nothing from one request to the next
Resend ==
    /\ pc = "done"
    /\ prev = "none"
    /\ \E h \in EmptyKeyHeaders(request) :
          request' = [k \in DOMAIN request \ {h} |-> request[k]]
    /\ env' = request'
    /\ prev' = Outcome
    /\ pc' = "token"
    /\ try_key_type' = Unset
    /\ try_key_value' = Unset
    /\ keys' = UnsetDict
    /\ fetches' = 0
    /\ app_calls' = <<>>
    /\ response' = NoResponse
    /\ UNCHANGED <<max_keys_per_container, container, backend_status, call, ret>>

Next ==
    \/ CheckToken
    \/ ExtractKey
    \/ CheckCandidate
    \/ FetchKeys
    \/ CheckKeys
    \/ Authorize
    \/ Resend

Spec == Init /\ [][Next]_vars

----------------------------------------------------------------------------
(* The module-level functions called directly, as the unit tests call them *)

MaxKeysDirect == 11  \* max_keys handed to generate_valid_metadata_keynames directly

Labels == {FULL_KEY, READ_KEY, <<"T", "e", "s", "t">>, <<"t", "e", "s", "t">>}

DirectNames == {FULL_KEY,
                <<"f", "u", "l", "l", "-", "k", "e", "y">>,
                <<"F", "u", "l", "l", "-", "K", "e", "y", "-", "1">>,
                <<"F", "U", "L", "L", "-", "K", "E", "Y", "-", "2">>,
                <<"F", "u", "l", "l", "-", "K", "e", "y", "-", "3">>,
                READ_KEY,
                <<"R", "e", "a", "d", "-", "K", "e", "y", "-", "1">>,
                <<"r", "e", "a", "d", "-", "k", "e", "y", "-", "2">>,
                <<"O", "t", "h", "e", "r">>}
DirectValues == {<<"a">>, <<"b">>, <<"xFF">>}
DirectMetas ==
    UNION {[S -> DirectValues] : S \in {T \in SUBSET DirectNames : Cardinality(T) <= MaxMeta}}

MatchValues == {<<>>, <<"a">>, <<"A">>, <<"b">>, <<"a", "b">>}
ListedKeys == {<<>>, <<"a">>, <<"A">>, <<"a", "b">>}
KeyLists == UNION {[1..n -> ListedKeys] : n \in 0..MaxKeyList}

InitUtil ==
    /\ max_keys_per_container = DEFAULT_MAX_KEYS_PER_CONTAINER
    /\ backend_status = 200
    /\ container = EmptyDict
    /\ request = [x \in {REQUEST_METHOD} |-> "GET"]
    /\ env = request
    /\ pc = "idle"
    /\ try_key_type = Unset
    /\ try_key_value = Unset
    /\ keys = UnsetDict
    /\ fetches = 0
    /\ app_calls = <<>>
    /\ response = NoResponse
    /\ prev = "none"
    /\ call = NoCall
    /\ ret = NoReturn

Middleware == <<max_keys_per_container, container, backend_status, request, env, pc,
                try_key_type, try_key_value, keys, fetches, app_calls, response, prev>>

CallGenerate ==
    /\ call.fn = "none"
    /\ \E key_name \in Labels, max_keys \in 1..MaxKeysDirect :
          /\ call' = [NoCall EXCEPT !.fn = "generate_valid_metadata_keynames",
                                    !.key_name = key_name, !.max_keys = max_keys]
          /\ ret' = [NoReturn EXCEPT
                        !.names = generate_valid_metadata_keynames(key_name, max_keys)]
    /\ UNCHANGED Middleware

CallGetKeys ==
    /\ call.fn = "none"
    /\ \E meta \in DirectMetas, max_keys \in 1..MaxKeysBound :
          \E items \in ItemOrders(meta) :
             /\ call' = [NoCall EXCEPT !.fn = "get_container_keys_from_metadata",
                                       !.meta = meta, !.max_keys = max_keys]
             /\ ret' = [NoReturn EXCEPT
                           !.keys = get_container_keys_from_metadata(meta, max_keys, items)]
    /\ UNCHANGED Middleware

CallKeyMatches ==
    /\ call.fn = "none"
    /\ \E to_match \in MatchValues, keylist \in KeyLists :
          /\ call' = [NoCall EXCEPT !.fn = "key_matches",
                                    !.to_match = to_match, !.keys = keylist]
          /\ ret' = [NoReturn EXCEPT !.matches = key_matches(to_match, keylist)]
    /\ UNCHANGED Middleware

NextUtil ==
    \/ CallGenerate
    \/ CallGetKeys
    \/ CallKeyMatches

SpecUtil == InitUtil /\ [][NextUtil]_vars

----------------------------------------------------------------------------
(* Properties *)

HasToken == AUTH_TOKEN_HEADER \in DOMAIN request /\ request[AUTH_TOKEN_HEADER] # <<>>

\* the request went to the next handler as it arrived, and nothing else happened
PassedUnmodified == Outcome = "NoOpinion" /\ app_calls = <<request>>

\* the candidate of the request: its class and value
HasCandidate == try_key_type \in {FULL_KEY, READ_KEY} /\ try_key_value # <<>>

\* the registry was built and holds a key in some class
HasRegistry == keys # UnsetDict /\ DOMAIN keys # {}

\* the registry list of a class; a class without keys has the empty list
RegistryList(class) == IF class \in DOMAIN keys THEN keys[class] ELSE <<>>

\* name is `label` or `label-N` with 2 <= N <= max_keys, letter case aside
IsKeyName(name, label, max_keys) ==
    \/ Lower(name) = Lower(label)
    \/ \E n \in 2..max_keys : Lower(name) = Lower(label) \o <<"-">> \o IntToStr(n)

\* C1: generate_valid_metadata_keynames(L, maxKeys) returns exactly maxKeys
\* names: lower-cased L first, then lower-cased L followed by "-i" for i from 2
\* to maxKeys.
KeynamesAsSpecified ==
    call.fn = "generate_valid_metadata_keynames" =>
        /\ Len(ret.names) = call.max_keys
        /\ ret.names[1] = Lower(call.key_name)
        /\ \A i \in 2..call.max_keys :
              i <= Len(ret.names) /\ ret.names[i] = Lower(call.key_name) \o <<"-">> \o IntToStr(i)

\* C2: get_container_keys_from_metadata puts an entry's value in the Full list
\* exactly when its name is Full-Key or Full-Key-N with 2 <= N <= maxKeys, in
\* the Read list exactly when it is Read-Key or Read-Key-N, letter case aside;
\* every other entry goes to neither list.
RegistryAsSpecified ==
    call.fn = "get_container_keys_from_metadata" =>
        \A label \in {FULL_KEY, READ_KEY} :
            LET named == {k \in DOMAIN call.meta : IsKeyName(k, label, call.max_keys)}
                got == DictGet(ret.keys, label)
            IN  IF named = {} THEN got = None
                ELSE /\ got # None
                     /\ Len(got) = Cardinality(named)
                     /\ Elems(got) = {get_valid_utf8_str(call.meta[k]) : k \in named}

KeyMatchesAsSpecified ==
    call.fn = "key_matches" =>
        /\ (\E i \in 1..Len(call.keys) : call.keys[i] = call.to_match) => ret.matches = TRUE
        /\ (\/ call.to_match = <<>>
            \/ \A i \in 1..Len(call.keys) : call.keys[i] # call.to_match) => ret.matches = FALSE

\* C4, amended: key_matches(v, keys) is true exactly when v equals,
\* case-sensitively, at least one entry of keys, wherever it stands; an empty
\* v gives false unless keys holds an empty entry.
KeyMatchesIffSomeEntryEqual ==
    call.fn = "key_matches" =>
        /\ ret.matches = (\E i \in 1..Len(call.keys) : call.keys[i] = call.to_match)
        /\ (call.to_match = <<>> /\ <<>> \notin Elems(call.keys)) => ret.matches = FALSE

MatchOnLastEntryOnly ==
    /\ call.fn = "key_matches"
    /\ Len(call.keys) >= 2
    /\ call.keys[Len(call.keys)] = call.to_match
    /\ \A i \in 1..(Len(call.keys) - 1) : call.keys[i] # call.to_match
    /\ ret.matches = TRUE

\* C5: extraction yields at most one candidate: (Full, value) if the Full-Key
\* header is present, whether or not the Read-Key header is too; else (Read,
\* value) if the Read-Key header is present; else none.  Extraction leaves the
\* request as it was.
FullKeyHeaderWins ==
    try_key_type # Unset =>
        /\ FULL_KEY_HEADER \in DOMAIN request =>
              try_key_type = FULL_KEY /\ try_key_value = request[FULL_KEY_HEADER]
        /\ (FULL_KEY_HEADER \notin DOMAIN request /\ READ_KEY_HAEDER \in DOMAIN request) =>
              try_key_type = READ_KEY /\ try_key_value = request[READ_KEY_HAEDER]
        /\ (FULL_KEY_HEADER \notin DOMAIN request /\ READ_KEY_HAEDER \notin DOMAIN request) =>
              try_key_type = None /\ try_key_value = None
        /\ pc = "candidate" => env = request

BothHeadersExtracted ==
    /\ pc = "candidate"
    /\ FULL_KEY_HEADER \in DOMAIN request
    /\ READ_KEY_HAEDER \in DOMAIN request
    /\ request[FULL_KEY_HEADER] # request[READ_KEY_HAEDER]
    /\ try_key_type = FULL_KEY

\* the container has no key in either class: whatever order the metadata is
\* read in, the registry built from it is empty
NoKeyConfigured ==
    \A items \in ItemOrders(get_container_info.meta) :
        DOMAIN get_container_keys_from_metadata(get_container_info.meta,
                                                max_keys_per_container, items) = {}

\* C6: when the container has no key in either class, every request, whatever
\* key it presents and whatever its method, is passed to the next handler
\* without the bypass flag and is never answered 401.
NoKeysMeansNoOpinion ==
    (pc = "done" /\ NoKeyConfigured) => PassedUnmodified

KeyPresentedToKeylessContainer ==
    /\ pc = "done"
    /\ NoKeyConfigured
    /\ backend_status = 200
    /\ container # EmptyDict
    /\ ~HasToken
    /\ HasCandidate
    /\ fetches = 1
    /\ PassedUnmodified

\* C7: a request with a non-empty token is passed unmodified to the next
\* handler before any key header is examined and before any metadata fetch:
\* NoOpinion, even if a key header with a valid or invalid key is present.
TokenTakesPrecedence ==
    HasToken =>
        /\ try_key_type = Unset
        /\ try_key_value = Unset
        /\ keys = UnsetDict
        /\ fetches = 0
        /\ response = NoResponse
        /\ pc \in {"token", "done"}
        /\ pc = "done" => PassedUnmodified

TokenWithValidKey ==
    /\ pc = "done"
    /\ HasToken
    /\ backend_status = 200
    /\ FULL_KEY_HEADER \in DOMAIN request
    /\ FULL_KEY \in DOMAIN container
    /\ container[FULL_KEY] = request[FULL_KEY_HEADER]
    /\ PassedUnmodified

\* C8: with no token, a non-empty candidate and a key configured in some
\* class, a candidate value equal to no entry of its own class's list is
\* rejected with 401 (next handler not invoked, bypass flag not set), also when
\* its own class has no key at all; the decision never ends in a fault.
MismatchRejected ==
    (/\ pc = "done"
     /\ ~HasToken
     /\ HasCandidate
     /\ HasRegistry
     /\ try_key_value \notin Elems(RegistryList(try_key_type)))
    => /\ Outcome = "Reject"
       /\ response.status = 401
       /\ app_calls = <<>>
       /\ AUTHORIZE_OVERRIDE \notin DOMAIN env

EmptyHeaderLikeAbsent ==
    (pc = "done" /\ prev \notin {"none", "Fault"} /\ Outcome # "Fault") => Outcome = prev

====
